---- MODULE Spec2Model ----
(***************************************************************************)
(* A model of the CDSCO SEC keyword search tool                            *)
(* (deepseek_python_20250617_c7e4c1.py): link discovery, the three-stage   *)
(* text extraction of one PDF (pdfplumber, PyPDF2, OCR), the keyword       *)
(* search over the extracted text and the display of the sorted results.   *)
(*                                                                         *)
(* A Python str is a sequence of one-character strings.                    *)
(***************************************************************************)
EXTENDS Integers, Sequences, FiniteSets, TLC

VARIABLES
    keyword,     \* value of st.text_input when the button is pressed
    pc,          \* position of the script: idle, links, loop, display, done
    listing,     \* number of GETs of CDSCO_BASE_URL performed
    pdf_links,   \* list returned by get_pdf_links
    i,           \* 1-based position of the for loop of search_documents
    phase,       \* position inside the loop body / extract_text
    response,    \* response of requests.get for the current document
    attempts,    \* strategies run on the current document, with their output
    text,        \* value returned by extract_text for the current document
    results,     \* results list of search_documents
    fetched,     \* urls passed to requests.get by extract_text, in order
    processed,   \* urls whose loop body reached the search step, in order
    rejected,    \* urls whose response failed the PDF header check, in order
    message,     \* st.error / st.success shown by the UI
    shown        \* expanders written by the UI, in display order

vars == <<keyword, pc, listing, pdf_links, i, phase, response, attempts, text,
          results, fetched, processed, rejected, message, shown>>

----------------------------------------------------------------------------
(* Bounds of the model *)

MaxDocs == 3
MaxKeyLen == 2
MaxTextLen == 4

(* Program constants *)

MAX_DOCS == 10
ContextWidth == 30
MaxSamples == 3

----------------------------------------------------------------------------
(* Characters and Python str methods *)

NL == "\n"
Mark == <<"*", "*">>
PDFMagic == <<"%", "P", "D", "F">>

Min(a, b) == IF a <= b THEN a ELSE b
Max(a, b) == IF a >= b THEN a ELSE b

\* str.isspace for one character
IsSpace(c) == c \in {" ", NL}

\* str.lower for one character, also the case folding of re.IGNORECASE
LowerChar(c) == IF c = "A" THEN "a" ELSE IF c = "B" THEN "b" ELSE c

Lower(s) == [j \in 1..Len(s) |-> LowerChar(s[j])]

RECURSIVE LStrip(_)
LStrip(s) ==
    IF s = <<>> THEN <<>>
    ELSE IF IsSpace(Head(s)) THEN LStrip(Tail(s)) ELSE s

RECURSIVE RStrip(_)
RStrip(s) ==
    IF s = <<>> THEN <<>>
    ELSE IF IsSpace(s[Len(s)]) THEN RStrip(SubSeq(s, 1, Len(s) - 1)) ELSE s

\* str.strip()
Strip(s) == RStrip(LStrip(s))

\* str.replace('\n', ' ')
ReplaceNL(s) == [j \in 1..Len(s) |-> IF s[j] = NL THEN " " ELSE s[j]]

\* re.sub(r'\s+', ' ', s)
RECURSIVE CollapseWs(_)
CollapseWs(s) ==
    IF s = <<>> THEN <<>>
    ELSE IF IsSpace(Head(s)) THEN <<" ">> \o CollapseWs(LStrip(Tail(s)))
    ELSE <<Head(s)>> \o CollapseWs(Tail(s))

\* a changed startswith: only the first two bytes are compared
StartsWithTwo(s, prefix) ==
    Len(s) >= 2 /\ SubSeq(s, 1, 2) = SubSeq(prefix, 1, 2)

\* bytes.startswith
StartsWith(s, prefix) ==
    Len(s) >= Len(prefix) /\ SubSeq(s, 1, Len(prefix)) = prefix

\* text[a:b] with 0-based a, b within bounds
Slice(s, a, b) == SubSeq(s, a + 1, b)

----------------------------------------------------------------------------
(* The re module: a pattern is a sequence of tokens *)

\* a changed escape: the pattern is compiled as typed, "." matching any
\* character but a newline
EscapeNothing(k) ==
    [j \in 1..Len(k) |->
        IF k[j] = "." THEN [kind |-> "any", ch |-> k[j]]
        ELSE [kind |-> "lit", ch |-> k[j]]]

\* re.escape: every character becomes a literal
Escape(k) == [j \in 1..Len(k) |-> [kind |-> "lit", ch |-> k[j]]]

\* re.compile(..., re.IGNORECASE) applied to one token and one character
TokenMatches(tok, c) ==
    IF tok.kind = "lit" THEN LowerChar(tok.ch) = LowerChar(c)
    ELSE c # NL

\* the pattern matches s at 0-based position pos
MatchAt(pat, s, pos) ==
    /\ pos + Len(pat) <= Len(s)
    /\ \A j \in 1..Len(pat) : TokenMatches(pat[j], s[pos + j])

\* pattern.finditer(s): leftmost, non-overlapping, scanning from pos
RECURSIVE FindFrom(_, _, _)
FindFrom(pat, s, pos) ==
    IF pos > Len(s) THEN <<>>
    ELSE IF MatchAt(pat, s, pos)
         THEN <<[start |-> pos, end |-> pos + Len(pat)]>>
              \o FindFrom(pat, s, IF Len(pat) = 0 THEN pos + 1 ELSE pos + Len(pat))
         ELSE FindFrom(pat, s, pos + 1)

FindIter(pat, s) == FindFrom(pat, s, 0)

\* re.sub(pat, lambda m: f"**{m.group(0)}**", s, flags=re.IGNORECASE)
RECURSIVE SubFrom(_, _, _)
SubFrom(pat, s, pos) ==
    LET next == IF pos < Len(s) THEN <<s[pos + 1]>> ELSE <<>> IN
    IF pos > Len(s) THEN <<>>
    ELSE IF MatchAt(pat, s, pos)
         THEN Mark \o Slice(s, pos, pos + Len(pat)) \o Mark
              \o (IF Len(pat) = 0
                  THEN next \o SubFrom(pat, s, pos + 1)
                  ELSE SubFrom(pat, s, pos + Len(pat)))
         ELSE next \o SubFrom(pat, s, pos + 1)

----------------------------------------------------------------------------
(* Inputs: what the user types and what the network and the libraries give *)

\* values of the search box
Keywords ==
    { <<>>, <<" ">>, <<"a">>, <<"A", " ">>, <<"a", " ", "b">>, <<"a", ".", "b">> }

\* page.extract_text() / image_to_string() of the pages of one document
PageLists ==
    { <<>>,
      << <<>> >>,
      << <<" ", NL>> >>,
      << <<"a", " ", "b">> >>,
      << <<"A", NL, "b">> >>,
      << <<"a", "A", "b">> >>,
      << <<"a", ".", "b">>, <<"a", " ", "a">> >> }

Statuses == {200, 404}

PdfBody == PDFMagic \o <<"-">>
HtmlBody == <<"<", "h", "t", "m", "l", ">">>
Bodies == {PdfBody, HtmlBody, <<"%", "P">>, <<>>}

NoResponse == [status |-> 0, content |-> <<>>]

----------------------------------------------------------------------------
(* extract_text and extract_text_with_ocr *)

\* the loop of a text-layer strategy: normalised page texts, each followed by " "
RECURSIVE TextLayer(_)
TextLayer(pages) ==
    IF pages = <<>> THEN <<>>
    ELSE (IF Head(pages) # <<>>
          THEN Strip(CollapseWs(Head(pages))) \o <<" ">>
          ELSE <<>>)
         \o TextLayer(Tail(pages))

\* the loop of extract_text_with_ocr: page texts, each followed by "\n"
RECURSIVE OcrText(_)
OcrText(pages) ==
    IF pages = <<>> THEN <<>>
    ELSE Head(pages) \o <<NL>> \o OcrText(Tail(pages))

\* a changed test: "if text: return text"
SucceedsUntrimmed(t) == t # <<>>

\* "if text.strip(): return text"
Succeeds(t) == Strip(t) # <<>>

Attempt(s, r, t) == [strategy |-> s, raised |-> r, out |-> t]

----------------------------------------------------------------------------
(* search_documents *)

\* keyword = keyword.lower().strip()
SearchKeyword(k) == Strip(Lower(k))

\* pattern = re.compile(re.escape(keyword), re.IGNORECASE)
Pattern(k) == Escape(SearchKeyword(k))

\* one context sample of a match
Sample(t, m) ==
    LET start == Max(0, m.start - ContextWidth)
        end == Min(Len(t), m.end + ContextWidth)
    IN  Strip(ReplaceNL(Slice(t, start, end)))

\* samples of matches[:3]
Samples(t, ms) ==
    [j \in 1..Min(Len(ms), MaxSamples) |-> Sample(t, ms[j])]

\* a changed label: the two branches exchanged
ExtractionMethodSwapped(t) == IF Len(t) > 0 THEN "ocr" ELSE "text"

\* 'text' if len(text) > 0 else 'ocr'
ExtractionMethod(t) == IF Len(t) > 0 THEN "text" ELSE "ocr"

ResultEntry(pdf, t, ms) ==
    [title |-> pdf.title, url |-> pdf.url, count |-> Len(ms),
     samples |-> Samples(t, ms), extraction_method |-> ExtractionMethod(t)]

\* the "if text:" block of the loop body
SearchText(rs, pdf, t, k) ==
    LET ms == FindIter(Pattern(k), t) IN
    IF t # <<>> /\ ms # <<>> THEN Append(rs, ResultEntry(pdf, t, ms)) ELSE rs

----------------------------------------------------------------------------
(* The display of the results *)

Reverse(s) == [j \in 1..Len(s) |-> s[Len(s) + 1 - j]]

\* x placed behind every element whose count is not larger: a stable insertion
RECURSIVE InsertAsc(_, _)
InsertAsc(s, x) ==
    IF s = <<>> THEN <<x>>
    ELSE IF x.count < Head(s).count THEN <<x>> \o s
    ELSE <<Head(s)>> \o InsertAsc(Tail(s), x)

RECURSIVE StableSortAsc(_)
StableSortAsc(s) ==
    IF s = <<>> THEN <<>>
    ELSE InsertAsc(StableSortAsc(SubSeq(s, 1, Len(s) - 1)), s[Len(s)])

\* a changed sort: ascending, then reversed
SortedThenReversed(rs) == Reverse(StableSortAsc(rs))

\* sorted(results, key=lambda x: x['count'], reverse=True): list.sort reverses
\* the list, sorts it stably in ascending order and reverses it again
SortedByCount(rs) == Reverse(StableSortAsc(Reverse(rs)))

\* re.sub(re.escape(keyword), ..., sample, flags=re.IGNORECASE), keyword being
\* the module-level value of the search box
Highlight(k, sample) == SubFrom(Escape(k), sample, 0)

\* str.upper of the method label
Upper(m) == IF m = "text" THEN "TEXT" ELSE "OCR"

Expander(doc, k) ==
    [title |-> doc.title, count |-> doc.count,
     label |-> Upper(doc.extraction_method), url |-> doc.url,
     lines |-> [j \in 1..Len(doc.samples) |-> Highlight(k, doc.samples[j])]]

Expanders(rs, k) ==
    LET sorted == SortedByCount(rs) IN
    [j \in 1..Len(sorted) |-> Expander(sorted[j], k)]

----------------------------------------------------------------------------
(* The script *)

Init ==
    /\ keyword \in Keywords
    /\ pc = "idle"
    /\ listing = 0
    /\ pdf_links = <<>>
    /\ i = 0
    /\ phase = "none"
    /\ response = NoResponse
    /\ attempts = <<>>
    /\ text = <<>>
    /\ results = <<>>
    /\ fetched = <<>>
    /\ processed = <<>>
    /\ rejected = <<>>
    /\ message = "none"
    /\ shown = <<>>

\* "if search_btn:"
PressSearch ==
    /\ pc = "idle"
    /\ pc' = "links"
    /\ UNCHANGED <<keyword, listing, pdf_links, i, phase, response, attempts,
                   text, results, fetched, processed, message, shown,
                   rejected>>

\* the links of n qualifying anchors, cut at MAX_DOCS
Links(n) == [j \in 1..Min(n, MAX_DOCS) |-> [title |-> j, url |-> j]]

\* get_pdf_links raises inside its try, or finds no anchor: st.error
GetLinksNone ==
    /\ pc = "links"
    /\ listing' = listing + 1
    /\ pdf_links' = <<>>
    /\ message' = "no_documents"
    /\ pc' = "done"
    /\ UNCHANGED <<keyword, i, phase, response, attempts, text, results,
                   fetched, processed, shown,
                   rejected>>

\* get_pdf_links returns links: search_documents starts
GetLinks ==
    /\ pc = "links"
    /\ \E n \in 1..MaxDocs : pdf_links' = Links(n)
    /\ listing' = listing + 1
    /\ results' = <<>>
    /\ i' = 1
    /\ phase' = "fetch"
    /\ pc' = "loop"
    /\ UNCHANGED <<keyword, response, attempts, text, fetched, processed,
                   message, shown,
                   rejected>>

\* a changed fetch: the exception of requests.get leaves search_documents
FetchErrorAborts ==
    /\ pc = "loop" /\ phase = "fetch"
    /\ fetched' = Append(fetched, pdf_links[i].url)
    /\ text' = <<>>
    /\ phase' = "none"
    /\ pc' = "done"
    /\ UNCHANGED <<keyword, listing, pdf_links, i, response, attempts,
                   results, processed, rejected, message, shown>>

\* requests.get raises: the outer except returns ""
FetchError ==
    /\ pc = "loop" /\ phase = "fetch"
    /\ fetched' = Append(fetched, pdf_links[i].url)
    /\ text' = <<>>
    /\ phase' = "search"
    /\ UNCHANGED <<keyword, pc, listing, pdf_links, i, response, attempts,
                   results, processed, message, shown,
                   rejected>>

\* requests.get returns a response
FetchResponse ==
    /\ pc = "loop" /\ phase = "fetch"
    /\ fetched' = Append(fetched, pdf_links[i].url)
    /\ \E st \in Statuses, body \in Bodies :
          response' = [status |-> st, content |-> body]
    /\ phase' = "header"
    /\ UNCHANGED <<keyword, pc, listing, pdf_links, i, attempts, text,
                   results, processed, message, shown,
                   rejected>>

\* "if not response.content.startswith(b'%PDF'): return ''"; with DEBUG the
\* bytes are first written to debug_file.bin, and a failure of that write is
\* caught by the outer except, which returns "" as well
RejectHeader ==
    /\ pc = "loop" /\ phase = "header"
    /\ ~StartsWith(response.content, PDFMagic)
    /\ rejected' = Append(rejected, pdf_links[i].url)
    /\ text' = <<>>
    /\ phase' = "search"
    /\ UNCHANGED <<keyword, pc, listing, pdf_links, i, response, attempts,
                   results, fetched, processed, message, shown>>

AcceptHeader ==
    /\ pc = "loop" /\ phase = "header"
    /\ StartsWith(response.content, PDFMagic)
    /\ phase' = "A"
    /\ UNCHANGED <<keyword, pc, listing, pdf_links, i, response, attempts,
                   text, results, fetched, processed, message, shown,
                   rejected>>

\* a text-layer strategy s raises, on opening the document or on any page:
\* the text read so far is dropped and its except passes on to strategy nxt
StrategyRaises(s, nxt) ==
    /\ pc = "loop" /\ phase = s
    /\ attempts' = Append(attempts, Attempt(s, TRUE, <<>>))
    /\ phase' = nxt
    /\ UNCHANGED <<keyword, pc, listing, pdf_links, i, response, text,
                   results, fetched, processed, message, shown,
                   rejected>>

\* a text-layer strategy s reads the pages: return text if text.strip()
StrategyReads(s, nxt) ==
    /\ pc = "loop" /\ phase = s
    /\ \E pages \in PageLists :
          LET t == TextLayer(pages) IN
          /\ attempts' = Append(attempts, Attempt(s, FALSE, t))
          /\ IF Succeeds(t)
             THEN text' = t /\ phase' = "search"
             ELSE text' = text /\ phase' = nxt
    /\ UNCHANGED <<keyword, pc, listing, pdf_links, i, response, results,
                   fetched, processed, message, shown,
                   rejected>>

PdfplumberRaises == StrategyRaises("A", "B")
PdfplumberReads == StrategyReads("A", "B")
PyPDF2Raises == StrategyRaises("B", "C")
PyPDF2Reads == StrategyReads("B", "C")

\* extract_text_with_ocr raises inside its try: returns ""
OcrRaises ==
    /\ pc = "loop" /\ phase = "C"
    /\ attempts' = Append(attempts, Attempt("C", TRUE, <<>>))
    /\ text' = <<>>
    /\ phase' = "search"
    /\ UNCHANGED <<keyword, pc, listing, pdf_links, i, response, results,
                   fetched, processed, message, shown,
                   rejected>>

\* extract_text_with_ocr returns the recognised text
OcrReads ==
    /\ pc = "loop" /\ phase = "C"
    /\ \E pages \in PageLists :
          LET t == OcrText(pages) IN
          /\ attempts' = Append(attempts, Attempt("C", FALSE, t))
          /\ text' = t
    /\ phase' = "search"
    /\ UNCHANGED <<keyword, pc, listing, pdf_links, i, response, results,
                   fetched, processed, message, shown,
                   rejected>>

\* the rest of the loop body, from "if text:" to results.append
SearchDoc ==
    /\ pc = "loop" /\ phase = "search"
    /\ processed' = Append(processed, pdf_links[i].url)
    /\ results' = SearchText(results, pdf_links[i], text, keyword)
    /\ phase' = "sleep"
    /\ UNCHANGED <<keyword, pc, listing, pdf_links, i, response, attempts,
                   text, fetched, message, shown,
                   rejected>>

\* time.sleep(1), then the next document
NextDoc ==
    /\ pc = "loop" /\ phase = "sleep"
    /\ i < Len(pdf_links)
    /\ i' = i + 1
    /\ phase' = "fetch"
    /\ response' = NoResponse
    /\ attempts' = <<>>
    /\ text' = <<>>
    /\ UNCHANGED <<keyword, pc, listing, pdf_links, results, fetched,
                   processed, message, shown,
                   rejected>>

\* time.sleep(1), then search_documents returns results
EndLoop ==
    /\ pc = "loop" /\ phase = "sleep"
    /\ i = Len(pdf_links)
    /\ pc' = "display"
    /\ phase' = "none"
    /\ response' = NoResponse
    /\ attempts' = <<>>
    /\ text' = <<>>
    /\ UNCHANGED <<keyword, listing, pdf_links, i, results, fetched,
                   processed, message, shown,
                   rejected>>

\* "Step 3: Results"
Display ==
    /\ pc = "display"
    /\ IF results # <<>>
       THEN message' = "success" /\ shown' = Expanders(results, keyword)
       ELSE message' = "no_matches" /\ shown' = <<>>
    /\ pc' = "done"
    /\ UNCHANGED <<keyword, listing, pdf_links, i, phase, response, attempts,
                   text, results, fetched, processed,
                   rejected>>

Next ==
    \/ PressSearch
    \/ GetLinksNone
    \/ GetLinks
    \/ FetchError
    \/ FetchResponse
    \/ RejectHeader
    \/ AcceptHeader
    \/ PdfplumberRaises
    \/ PdfplumberReads
    \/ PyPDF2Raises
    \/ PyPDF2Reads
    \/ OcrRaises
    \/ OcrReads
    \/ SearchDoc
    \/ NextDoc
    \/ EndLoop
    \/ Display

Spec == Init /\ [][Next]_vars

----------------------------------------------------------------------------
(* The search step on every short text and keyword: the loop of             *)
(* search_documents stands at "if text:" for a one-document list whose text *)
(* came out of the OCR fallback, the one strategy that returns its text     *)
(* as recognised.                                                           *)

SearchChars == {"a", "A", " ", "."}

Strings(S, n) == UNION {[1..m -> S] : m \in 0..n}

InitSearch ==
    /\ keyword \in Strings(SearchChars, MaxKeyLen)
    /\ pc = "loop"
    /\ listing = 1
    /\ pdf_links = Links(1)
    /\ i = 1
    /\ phase = "search"
    /\ response = [status |-> 200, content |-> PdfBody]
    /\ \E page \in Strings(SearchChars, MaxTextLen) :
          /\ text = OcrText(<<page>>)
          /\ attempts = <<Attempt("A", TRUE, <<>>), Attempt("B", TRUE, <<>>),
                          Attempt("C", FALSE, OcrText(<<page>>))>>
    /\ results = <<>>
    /\ fetched = <<1>>
    /\ processed = <<>>
    /\ rejected = <<>>
    /\ message = "none"
    /\ shown = <<>>

NextSearch ==
    \/ SearchDoc
    \/ EndLoop
    \/ Display

SpecSearch == InitSearch /\ [][NextSearch]_vars

----------------------------------------------------------------------------
(* Properties *)

Order == <<"A", "B", "C">>

\* the bytes begin with %PDF
IsPdf(c) ==
    Len(c) >= 4 /\ c[1] = "%" /\ c[2] = "P" /\ c[3] = "D" /\ c[4] = "F"

\* an attempt that raised or whose text is empty once trimmed
Failed(a) == a.raised \/ Strip(a.out) = <<>>

Extracted == pc = "loop" /\ phase \in {"search", "sleep"}

\* the entries of the results for the document at url u
EntriesOf(u) == {j \in 1..Len(results) : results[j].url = u}

\* C1: the strategies run in the order A, B, C; a strategy runs only after
\* every earlier one raised or gave empty trimmed text; a strategy that gives
\* non-empty trimmed text is the last one run and its text is what
\* extract_text returns; after A or B raised or gave nothing, the next
\* strategy is run.
C1_StrategyOrder ==
    /\ Len(attempts) <= 3
    /\ \A k \in 1..Len(attempts) :
          /\ attempts[k].strategy = Order[k]
          /\ \A j \in 1..(k - 1) : Failed(attempts[j])
          /\ ~Failed(attempts[k]) =>
                /\ k = Len(attempts)
                /\ Extracted
                /\ text = attempts[k].out
          /\ (Failed(attempts[k]) /\ k < 3) =>
                \/ Len(attempts) > k
                \/ pc = "loop" /\ phase = Order[k + 1]

\* C1 witness: A raised, B read no text, and C was run and gave the text
C1_Witness ==
    /\ Extracted
    /\ Len(attempts) = 3
    /\ attempts[1].raised
    /\ ~attempts[2].raised
    /\ ~attempts[3].raised
    /\ text # <<>>

\* C2: when the fetched bytes do not begin with %PDF, no strategy is run,
\* extract_text returns "", and no document rejected by the header check has
\* an entry in the results.
C2_NonPdfRejected ==
    /\ (response # NoResponse /\ ~IsPdf(response.content)) =>
          /\ attempts = <<>>
          /\ phase \in {"header", "search", "sleep"}
          /\ Extracted => text = <<>>
    /\ \A j \in 1..Len(rejected) : EntriesOf(rejected[j]) = {}
    /\ (Extracted /\ response # NoResponse
            /\ ~IsPdf(response.content)) =>
          rejected # <<>> /\ rejected[Len(rejected)] = pdf_links[i].url

\* C2 witness: a 200 response that is an HTML page has been searched, after
\* an earlier document matched
C2_Witness ==
    /\ pc = "loop" /\ phase = "sleep"
    /\ response = [status |-> 200, content |-> HtmlBody]
    /\ results # <<>>

\* C3: for a keyword that is not blank, a document whose fetch ended in a
\* network error, a non-200 status or non-PDF content has no entry in the
\* results.
C3_FailedFetchExcluded ==
    (/\ pc = "loop" /\ phase = "sleep"
     /\ Strip(keyword) # <<>>
     /\ \/ response = NoResponse
        \/ response.status # 200
        \/ ~IsPdf(response.content))
    => EntriesOf(pdf_links[i].url) = {}

\* the largest number of pairwise non-overlapping case-insensitive literal
\* occurrences of k in t that start at 0-based position p or later
OccursAt(k, t, p) ==
    /\ p + Len(k) <= Len(t)
    /\ Lower(Slice(t, p, p + Len(k))) = Lower(k)

RECURSIVE MaxOcc(_, _, _)
MaxOcc(k, t, p) ==
    IF p > Len(t) THEN 0
    ELSE Max(MaxOcc(k, t, p + 1),
             IF OccursAt(k, t, p)
             THEN 1 + MaxOcc(k, t, p + Max(1, Len(k)))
             ELSE 0)

\* the results after the search step of the one document, were k the keyword
CountIs(k) ==
    LET n == MaxOcc(k, text, 0) IN
    IF text # <<>> /\ n >= 1
    THEN /\ Len(results) = 1
         /\ results[1].url = pdf_links[i].url
         /\ results[1].count = n
    ELSE results = <<>>

\* C4 as stated: for a keyword that is not blank, the count reported for a
\* document is the number of non-overlapping case-insensitive literal
\* occurrences, in its text, of the keyword exactly as typed.
C4_CountOfTypedKeyword ==
    (pc = "loop" /\ phase = "sleep" /\ Strip(keyword) # <<>>)
        => CountIs(keyword)

\* C4 amended: the count reported for a document is the number of
\* non-overlapping case-insensitive literal occurrences, in its text, of the
\* keyword lower-cased and stripped of leading and trailing whitespace, and
\* a document has an entry exactly when that number is at least 1.
C4_CountOfStrippedKeyword ==
    (pc = "loop" /\ phase = "sleep") => CountIs(Strip(Lower(keyword)))

\* C4 witness: a keyword typed with a leading blank and a metacharacter is
\* counted twice in a text
C4_Witness ==
    /\ pc = "loop" /\ phase = "sleep"
    /\ keyword = <<" ", ".">>
    /\ results # <<>>
    /\ results[1].count = 2

\* C5: with a blank keyword the run fetches no listing and no document,
\* extracts nothing and produces no result entry.
C5_BlankKeywordNoOp ==
    Strip(keyword) = <<>> =>
        /\ listing = 0
        /\ fetched = <<>>
        /\ attempts = <<>>
        /\ results = <<>>
        /\ shown = <<>>

\* C6: the expanders are the results in order of count descending, and two
\* results with equal counts are shown in their order in pdf_list.
C6_SortedStable ==
    (pc = "done" /\ message = "success") =>
        /\ Len(shown) = Len(results)
        /\ \A j \in 1..Len(results) : \E p \in 1..Len(shown) :
              /\ shown[p].title = results[j].title
              /\ shown[p].count = results[j].count
        /\ \A p, q \in 1..Len(shown) : p < q =>
              \/ shown[p].count > shown[q].count
              \/ /\ shown[p].count = shown[q].count
                 /\ shown[p].title < shown[q].title

\* C6 witness: three results, the second with the largest count and the
\* other two tied
C6_Witness ==
    /\ pc = "done"
    /\ Len(shown) = 3
    /\ shown[1].title = 2
    /\ shown[2].count = shown[3].count
    /\ shown[2].title = 1

Urls(n) == [j \in 1..n |-> pdf_links[j].url]

\* what holds of the fetch and search logs in every state
C7_Logs ==
    /\ Len(fetched) <= Len(pdf_links)
    /\ Len(processed) <= Len(fetched)
    /\ Len(fetched) <= Len(processed) + 1
    /\ fetched = Urls(Len(fetched))
    /\ processed = Urls(Len(processed))
    /\ pc = "loop" =>
          /\ Len(fetched) = IF phase = "fetch" THEN i - 1 ELSE i
          /\ Len(processed) = IF phase = "sleep" THEN i ELSE i - 1
    /\ (pc = "display" \/ (pc = "done" /\ pdf_links # <<>>)) =>
          /\ fetched = Urls(Len(pdf_links))
          /\ processed = Urls(Len(pdf_links))

\* a step keeps every match found so far
C7_Keeps ==
    /\ Len(results') >= Len(results)
    /\ SubSeq(results', 1, Len(results)) = results

\* C7: every document of the list is fetched and searched exactly once, in
\* list order, each one searched before the next is fetched, whatever the
\* outcome of each, and the matches of earlier documents are kept.
C7_Sequential == []C7_Logs /\ [][C7_Keeps]_vars

\* C7 witness: the first document was rejected by the header check, the
\* second gave no match and the third matched
C7_Witness ==
    /\ pc = "display"
    /\ Len(pdf_links) = 3
    /\ rejected = <<1>>
    /\ Len(results) = 1
    /\ results[1].url = 3

\* h holds an occurrence of k between emphasis markers
Wrapped(h, k) ==
    \E p \in 0..Len(h) :
        /\ p + 4 + Len(k) <= Len(h)
        /\ Slice(h, p, p + 2) = Mark
        /\ Lower(Slice(h, p + 2, p + 2 + Len(k))) = Lower(k)
        /\ Slice(h, p + 2 + Len(k), p + 4 + Len(k)) = Mark

Unmarked(h) == SelectSeq(h, LAMBDA c : c # "*")

\* C8: for a keyword that is not blank, every line shown for a result is its
\* sample with the occurrence of the searched keyword between emphasis
\* markers, in the casing of the document.
C8_MatchHighlighted ==
    (pc = "done" /\ Strip(keyword) # <<>>) =>
        \A p \in 1..Len(shown) : \E j \in 1..Len(results) :
            /\ results[j].title = shown[p].title
            /\ Len(shown[p].lines) = Len(results[j].samples)
            /\ \A n \in 1..Len(shown[p].lines) :
                  /\ Unmarked(shown[p].lines[n]) = results[j].samples[n]
                  /\ Wrapped(shown[p].lines[n], Strip(Lower(keyword)))

\* C9: the text returned by extract_text holds no newline and no run of two
\* whitespace characters before its last character.
C9_Normalized ==
    Extracted =>
        /\ \A j \in 1..Len(text) : text[j] # NL
        /\ \A j \in 1..(Len(text) - 2) :
              ~(IsSpace(text[j]) /\ IsSpace(text[j + 1]))

\* C10: every result entry has extraction_method 'text' and every expander
\* the label TEXT, also when the text came from the OCR fallback.
C10_MethodAlwaysText ==
    /\ \A j \in 1..Len(results) : results[j].extraction_method = "text"
    /\ \A p \in 1..Len(shown) : shown[p].label = "TEXT"

\* C10 witness: the OCR fallback gave the text of a document that matched
C10_Witness ==
    /\ pc = "loop" /\ phase = "sleep"
    /\ Len(attempts) = 3
    /\ ~attempts[3].raised
    /\ EntriesOf(pdf_links[i].url) # {}

====
